---- MODULE Spec2Model ----
(***************************************************************************)
(* The access point controller of src/network/access_point.go: the         *)
(* settings, the bounded request queue, the Run loop with its apply and    *)
(* poll cycles, runCommand's race of a worker against a timer, and the     *)
(* access point itself as the environment the commands act on.             *)
(*                                                                         *)
(* Text is modelled as sequences of one-character strings, so that Itoa   *)
(* and Atoi are real conversions.  The output of "iwinfo" is modelled by   *)
(* the matches of the two regular expressions of decodeWifiInfo, and the   *)
(* output of "luci-bwc" by its "],"-separated samples, each a sequence of  *)
(* its ","-separated fields.                                               *)
(***************************************************************************)
EXTENDS Integers, Sequences, FiniteSets, TLC

\* ------------------------------------------------------------ constants
accessPointRequestBufferSize == 10

\* Capacity of runCommand's commandChan.
commandChanSize == 1

\* Number of team stations: the length of [6]*model.Team and [6]TeamWifiStatus.
NumStations == 6

\* ------------------------------------------------------------ bounds
\* Cap on retryCount, which the code increments without limit.
MaxRetryCount == 2

\* Cap on the workers that a timed-out runCommand has left running.
MaxAbandoned == 1

\* Cap on the requests that callers keep pending during apply cycles.
MaxPending == 1

\* Requests that callers keep pending when only the queue is looked at.
MaxQueued == 3

Stations == 0 .. (NumStations - 1)

\* ------------------------------------------------------------ text
Digit(d) ==
    CASE d = 0 -> "0" [] d = 1 -> "1" [] d = 2 -> "2" [] d = 3 -> "3"
      [] d = 4 -> "4" [] d = 5 -> "5" [] d = 6 -> "6" [] d = 7 -> "7"
      [] d = 8 -> "8" [] d = 9 -> "9"

IsDigit(c) == c \in {"0", "1", "2", "3", "4", "5", "6", "7", "8", "9"}

DigitValue(c) == CHOOSE d \in 0 .. 9 : Digit(d) = c

RECURSIVE ItoaNat(_)
ItoaNat(n) == IF n < 10 THEN <<Digit(n)>> ELSE ItoaNat(n \div 10) \o <<Digit(n % 10)>>

\* strconv.Itoa
Itoa(n) == IF n < 0 THEN <<"-">> \o ItoaNat(0 - n) ELSE ItoaNat(n)

RECURSIVE DigitsValue(_, _)
DigitsValue(s, acc) ==
    IF s = <<>> THEN acc ELSE DigitsValue(Tail(s), acc * 10 + DigitValue(Head(s)))

AllDigits(s) == s # <<>> /\ \A k \in 1 .. Len(s) : IsDigit(s[k])

\* The largest int. The width of int is the build's, 32 or 64 bits; this is
\* the 32-bit build, and a 64-bit build clamps at 2^63 - 1 in the same way.
MaxInt == 2147483647

MinInt == (0 - MaxInt) - 1

RECURSIVE StripZeros(_)
StripZeros(s) == IF Len(s) > 1 /\ Head(s) = "0" THEN StripZeros(Tail(s)) ELSE s

\* Whether the digits, without leading zeros, denote at most MaxInt - 7 + lastDigit.
FitsInt(z, lastDigit) ==
    \/ Len(z) < 10
    \/ /\ Len(z) = 10
       /\ LET high == DigitsValue(SubSeq(z, 1, 9), 0)
          IN \/ high < MaxInt \div 10
             \/ high = MaxInt \div 10 /\ DigitValue(z[10]) <= lastDigit

\* strconv.Atoi with its error dropped: the value of an optionally signed
\* decimal numeral, the nearest int when that value is out of range, and 0
\* for any other text.
Atoi(s) ==
    LET signed == s # <<>> /\ Head(s) \in {"+", "-"}
        negative == signed /\ Head(s) = "-"
        digits == IF signed THEN Tail(s) ELSE s
        z == StripZeros(digits)
    IN IF ~AllDigits(digits)
       THEN 0
       ELSE IF negative
       THEN IF FitsInt(z, 7) THEN 0 - DigitsValue(z, 0) ELSE MinInt
       ELSE IF FitsInt(z, 7) THEN DigitsValue(z, 0) ELSE MaxInt

\* ------------------------------------------------------------ teams
\* A WPA key of the given length; only its length is ever inspected.
Key(n) == [j \in 1 .. n |-> "k"]

\* *model.Team: nil, or a team with the two fields the controller reads.
NilTeam == [nil |-> TRUE, Id |-> 0, WpaKey |-> <<>>]

Team(id, keyLen) == [nil |-> FALSE, Id |-> id, WpaKey |-> Key(keyLen)]

\* [6]*model.Team{nil, nil, nil, nil, nil, nil}
NoTeams == [k \in Stations |-> NilTeam]

\* Assignments that callers submit: none, one valid team, and one whose
\* first team has a 7-character key beside a valid team.
OneTeam == [NoTeams EXCEPT ![0] = Team(1, 8)]

BadKeyTeams == [NoTeams EXCEPT ![0] = Team(2, 7), ![1] = Team(1, 63)]

Assignments == {NoTeams, OneTeam, BadKeyTeams}

\* ------------------------------------------------------------ configuration
NoTeamName(position) == <<"n", "o", "-", "t", "e", "a", "m", "-">> \o Itoa(position)

Directive(position, option, value) ==
    [iface |-> position, option |-> option, value |-> value]

\* A generator that lets a key of seven characters through.
generateTeamAccessPointConfigLenient(isVivid, team, position) ==
    IF position < 1 \/ position > 6
    THEN [config |-> <<>>, err |-> TRUE]
    ELSE IF ~team.nil /\ (Len(team.WpaKey) < 7 \/ Len(team.WpaKey) > 63)
    THEN [config |-> <<>>, err |-> TRUE]
    ELSE LET ssid == IF team.nil THEN NoTeamName(position) ELSE Itoa(team.Id)
             key == IF team.nil THEN NoTeamName(position) ELSE team.WpaKey
         IN [config |-> << Directive(position, "disabled", <<"0">>),
                           Directive(position, "ssid", ssid),
                           Directive(position, "key", key) >>,
             err |-> FALSE]

\* generateTeamAccessPointConfig: the joined "set" directives and the error.
generateTeamAccessPointConfig(isVivid, team, position) ==
    IF position < 1 \/ position > 6
    THEN [config |-> <<>>, err |-> TRUE]
    ELSE IF ~team.nil /\ (Len(team.WpaKey) < 8 \/ Len(team.WpaKey) > 63)
    THEN [config |-> <<>>, err |-> TRUE]
    ELSE LET ssid == IF team.nil THEN NoTeamName(position) ELSE Itoa(team.Id)
             key == IF team.nil THEN NoTeamName(position) ELSE team.WpaKey
             commands == << Directive(position, "disabled", <<"0">>),
                            Directive(position, "ssid", ssid),
                            Directive(position, "key", key) >>
         IN [config |-> IF isVivid
                        THEN Append(commands, Directive(position, "sae_password", key))
                        ELSE commands,
             err |-> FALSE]

\* addConfigurationHeader: the "uci batch" command around the directives.
addConfigurationHeader(commandList) == [kind |-> "batch", directives |-> commandList, iface |-> 0]

IwinfoCommand == [kind |-> "iwinfo", directives |-> <<>>, iface |-> 0]

CommitCommand == [kind |-> "commit", directives |-> <<>>, iface |-> 0]

ReloadCommand == [kind |-> "reload", directives |-> <<>>, iface |-> 0]

\* "luci-bwc -i ath<infWifi[i]>", identified by the station index i.
BwcCommand(i) == [kind |-> "bwc", directives |-> <<>>, iface |-> i]

\* The "uci batch ... && wifi radio0" command of ConfigureAdminSettings.
AdminCommand == [kind |-> "admin", directives |-> <<>>, iface |-> 0]

NoCommand == [kind |-> "none", directives |-> <<>>, iface |-> 0]

\* ------------------------------------------------------------ status
\* TeamWifiStatus.  MBits holds the exact integer
\* rXBytes-rXBytesOld+tXBytes-tXBytesOld; the float64 of the code is that
\* number times 0.000008 / 5.0.
TeamWifiStatus(teamId, radioLinked, mBits) ==
    [TeamId |-> teamId, RadioLinked |-> radioLinked, MBits |-> mBits]

ZeroStatuses == [k \in Stations |-> TeamWifiStatus(0, FALSE, 0)]

\* decodeWifiInfo, the length check: fewer than six matches of either
\* expression is an error.
decodeWifiInfoFails(wifiInfo) ==
    Len(wifiInfo.ssids) < 6 \/ Len(wifiInfo.linkQualities) < 6

\* decodeWifiInfo, one iteration of its loop over the statuses.
decodeWifiInfoAt(wifiInfo, statuses, k) ==
    [statuses EXCEPT ![k] = [@ EXCEPT !.TeamId = Atoi(wifiInfo.ssids[k + 1]),
                                      !.RadioLinked = (wifiInfo.linkQualities[k + 1] # "unknown")]]

\* The team ids a dump decodes to, position by position.
DecodedTeamId(wifiInfo, k) == Atoi(wifiInfo.ssids[k + 1])

\* A parser that compares the last sample with the seventh from the end.
parseBtuSixEarlier(response) ==
    LET n == Len(response)
        sixCnt == response[n - 6]
        lastCnt == response[n]
    IN IF n > 6
       THEN IF Len(lastCnt) < 4 \/ Len(sixCnt) < 4
            THEN [panic |-> TRUE, mBits |-> 0]
            ELSE [panic |-> FALSE,
                  mBits |-> Atoi(lastCnt[2]) - Atoi(sixCnt[2])
                            + Atoi(lastCnt[4]) - Atoi(sixCnt[4])]
       ELSE [panic |-> FALSE, mBits |-> 0]

\* parseBtu: panics when a sample it indexes has too few fields, and
\* otherwise yields the byte difference (0 with six lines or fewer).
parseBtu(response) ==
    LET n == Len(response)
        fiveCnt == response[n - 5]
        lastCnt == response[n]
    IN IF n > 6
       THEN IF Len(lastCnt) < 4 \/ Len(fiveCnt) < 4
            THEN [panic |-> TRUE, mBits |-> 0]
            ELSE [panic |-> FALSE,
                  mBits |-> Atoi(lastCnt[2]) - Atoi(fiveCnt[2])
                            + Atoi(lastCnt[4]) - Atoi(fiveCnt[4])]
       ELSE [panic |-> FALSE, mBits |-> 0]

\* A comparison that does not wait for the first fetch.
configIsCorrectForTeamsUngated(fetched, statuses, teamsArg) ==
    \A k \in Stations :
        statuses[k].TeamId = (IF teamsArg[k].nil THEN 0 ELSE teamsArg[k].Id)

\* A comparison that also wants every assigned station linked.
configIsCorrectForTeamsLinked(fetched, statuses, teamsArg) ==
    IF ~fetched
    THEN FALSE
    ELSE \A k \in Stations :
            /\ statuses[k].TeamId = (IF teamsArg[k].nil THEN 0 ELSE teamsArg[k].Id)
            /\ ~teamsArg[k].nil => statuses[k].RadioLinked

\* Returns true if the statuses match the given teams.
configIsCorrectForTeams(fetched, statuses, teamsArg) ==
    IF ~fetched
    THEN FALSE
    ELSE \A k \in Stations :
            statuses[k].TeamId = (IF teamsArg[k].nil THEN 0 ELSE teamsArg[k].Id)

ExpectedTeamId(teamsArg, k) == IF teamsArg[k].nil THEN 0 ELSE teamsArg[k].Id

\* ------------------------------------------------------------ the access point
\* The networks of a device on which every station holds its placeholder.
BlankNetworks == [k \in 1 .. NumStations |-> NoTeamName(k)]

\* The networks the device may hold when the controller starts.
InitialNetworks == {BlankNetworks, [BlankNetworks EXCEPT ![1] = Itoa(2)]}

\* "uci batch": every "ssid" directive sets the name of its interface.
ApplyBatch(staged, directives) ==
    [k \in 1 .. NumStations |->
        IF \E j \in 1 .. Len(directives) :
              directives[j].option = "ssid" /\ directives[j].iface = k
        THEN LET j == CHOOSE j \in 1 .. Len(directives) :
                          directives[j].option = "ssid" /\ directives[j].iface = k
             IN directives[j].value
        ELSE staged[k]]

AllUnknown == [k \in 1 .. NumStations |-> "unknown"]

\* Link qualities a device reports: no station linked, or the first two.
LinkPatterns == {AllUnknown, [AllUnknown EXCEPT ![1] = "70", ![2] = "70"]}

\* "iwinfo" of a device with the given active networks.
Report(active, linkQualities) == [ssids |-> active, linkQualities |-> linkQualities]

\* A dump with five networks only.
ShortDump == [ssids |-> SubSeq(BlankNetworks, 1, 5), linkQualities |-> SubSeq(AllUnknown, 1, 5)]

\* What a misbehaving device may answer to "iwinfo".
GarbledDumps == {ShortDump, Report([BlankNetworks EXCEPT ![1] = Itoa(1)], AllUnknown)}

NoDump == [ssids |-> <<>>, linkQualities |-> <<>>]

Sample(time, rxBytes, rxPackets, txBytes, txPackets) ==
    << Itoa(time), Itoa(rxBytes), Itoa(rxPackets), Itoa(txBytes), Itoa(txPackets) >>

\* "luci-bwc" dumps: six samples, seven samples of a busy and of an idle
\* interface, and seven samples cut to two fields each.
SixSamples == [k \in 1 .. 6 |-> Sample(k, 100 * k, k, 25 * k, k)]

SevenBusy == [k \in 1 .. 7 |-> Sample(k, 100 * k, k, 25 * k, k)]

SevenIdle == [k \in 1 .. 7 |-> Sample(k, 100, 1, 25, 1)]

SevenShort == [k \in 1 .. 7 |-> << Itoa(k), Itoa(100 * k) >>]

\* What the device answers to "luci-bwc" for station i: when there is
\* traffic, the first station carries it.
BwcDumps(i, traffic) == {SixSamples, IF traffic /\ i = 0 THEN SevenBusy ELSE SevenIdle}

\* What a command returns: the text of an "iwinfo" dump, of a "luci-bwc"
\* dump, or nothing.
Output(dump, samples) == [dump |-> dump, samples |-> samples]

EmptyOutput == Output(NoDump, <<>>)

\* sshOutput
SshOutput(output, err) == [output |-> output, err |-> err]

\* What session.Output can yield for a command on the device as it stands:
\* the result, the device's networks afterwards, and whether the device
\* behaved (accepted the command and reported the truth).  A command may
\* fail without effect, and a write may take effect and still report an
\* error.
Outcome(output, err, staged, active, healthy) ==
    [output |-> output, err |-> err, staged |-> staged, active |-> active,
     healthy |-> healthy]

DeviceOutcomes(command, staged, active, traffic) ==
    {Outcome(EmptyOutput, TRUE, staged, active, FALSE)}
    \cup
    CASE command.kind = "batch" ->
            {Outcome(EmptyOutput, e, ApplyBatch(staged, command.directives), active, ~e) :
                e \in BOOLEAN}
      [] command.kind = "reload" ->
            {Outcome(EmptyOutput, e, staged, staged, ~e) : e \in BOOLEAN}
      [] command.kind = "iwinfo" ->
            {Outcome(Output(Report(active, lq), <<>>), FALSE, staged, active, TRUE) :
                lq \in LinkPatterns}
            \cup
            {Outcome(Output(d, <<>>), FALSE, staged, active, FALSE) : d \in GarbledDumps}
      [] command.kind = "bwc" ->
            {Outcome(Output(NoDump, d), FALSE, staged, active, TRUE) :
                d \in BwcDumps(command.iface, traffic)}
            \cup
            {Outcome(Output(NoDump, SevenShort), FALSE, staged, active, FALSE)}
      [] OTHER ->
            {Outcome(EmptyOutput, FALSE, staged, active, TRUE)}

\* ------------------------------------------------------------ state
Procs == {"loop", "admin"}

VARIABLES
    isVividType,             \* ap.isVividType
    networkSecurityEnabled,  \* ap.networkSecurityEnabled
    configRequestChan,       \* ap.configRequestChan: nil, or its buffer
    TeamWifiStatuses,        \* ap.TeamWifiStatuses
    initialStatusesFetched,  \* ap.initialStatusesFetched
    caller,                  \* what the latest ConfigureTeamWifi call returned,
                             \* "idle" when its caller has taken the result
    run,                     \* the Run goroutine: its position and locals
    rc,                      \* the runCommand invocation of each goroutine
    abandoned,               \* workers left running by a timed-out runCommand
    blocked,                 \* workers stuck sending to commandChan
    adminPc,                 \* the goroutine calling ConfigureAdminSettings
    apStaged,                \* the device: network names set by "uci batch"
    apActive,                \* the device: network names on the air
    apHealthy,               \* the device accepts every command and reports the truth
    apTraffic,               \* the device: the first station carries traffic
    snapshot,                \* a reader's copy of ap.TeamWifiStatuses
    call,                    \* a function called on its own: arguments and results
    hist                     \* history: what the properties look back on

vars == << isVividType, networkSecurityEnabled, configRequestChan, TeamWifiStatuses,
           initialStatusesFetched, caller, run, rc, abandoned, blocked, adminPc,
           apStaged, apActive, apHealthy, apTraffic, snapshot, call, hist >>

settingsVars == << isVividType, networkSecurityEnabled >>

statusVars == << TeamWifiStatuses, initialStatusesFetched >>

cmdVars == << rc, abandoned, blocked >>

devVars == << apStaged, apActive, apHealthy, apTraffic >>

\* A runCommand invocation: not running.  conn and session are the
\* connection and the session of the invocation: "none" until opened, then
\* "open", and "closed" once its deferred Close has run.
IdleCommand ==
    [stage |-> "idle", command |-> NoCommand, worker |-> "none", commandChan |-> <<>>,
     output |-> EmptyOutput, err |-> FALSE, timedOut |-> FALSE, leftWorker |-> FALSE,
     conn |-> "none", session |-> "none"]

\* runCommand entered with the given command: about to ssh.Dial.
StartCommand(command) == [IdleCommand EXCEPT !.stage = "dial", !.command = command]

\* The Run goroutine before its first iteration.
InitRun ==
    [pc |-> "select", request |-> NoTeams, numExtraRequests |-> 0, i |-> 0,
     statusCaller |-> "none", statusErr |-> FALSE, wifiInfo |-> NoDump, statusIdx |-> 0,
     teams |-> NoTeams, pass |-> "none", teamIndex |-> 0, retryCount |-> 1,
     btuIdx |-> 0]

\* History: the last assignment in the queue when Run received one, whether
\* no assignment was queued since, whether a status fetch has succeeded, how
\* the apply cycle that just ended did end, the statuses when the running
\* decode began, whether the reader's copy was taken from a half-decoded
\* array, whether the commit or the reload of the pass returned an error,
\* and for the poll that is running whether its status fetch has failed and
\* whether it has given a status field or the flag a value other than the
\* one held before (a poll writes each of them once at most).
NoPoll == [active |-> FALSE, failed |-> FALSE, changed |-> FALSE]

InitHist ==
    [pickedLast |-> NoTeams, drainClean |-> TRUE, fetchSucceeded |-> FALSE,
     cycle |-> "none", decodeBase |-> ZeroStatuses, snapshotTorn |-> FALSE,
     bestEffortErr |-> FALSE, poll |-> NoPoll]

\* No function is being called on its own.
NoCall == [fn |-> "none"]

InitWith(networks, healthy, traffic) ==
    /\ isVividType = FALSE
    /\ networkSecurityEnabled = FALSE
    /\ configRequestChan = [nil |-> TRUE, buf |-> <<>>]
    /\ TeamWifiStatuses = ZeroStatuses
    /\ initialStatusesFetched = FALSE
    /\ caller = "idle"
    /\ run = InitRun
    /\ rc = [p \in Procs |-> IdleCommand]
    /\ abandoned = 0
    /\ blocked = 0
    /\ adminPc = "idle"
    /\ apActive \in networks
    /\ apStaged = apActive
    /\ apHealthy = healthy
    /\ apTraffic = traffic
    /\ snapshot = ZeroStatuses
    /\ call = NoCall
    /\ hist = InitHist

\* The controller as constructed, before SetSettings, beside a device that
\* may fail or garble any command.
Init == InitWith(InitialNetworks, FALSE, FALSE)

\* ------------------------------------------------------------ settings and queue
\* SetSettings: overwrites the settings and creates the channel the first
\* time it is called.
SetSettings(vivid, security) ==
    /\ isVividType' = vivid
    /\ networkSecurityEnabled' = security
    /\ configRequestChan' = [configRequestChan EXCEPT !.nil = FALSE]
    /\ UNCHANGED << call, statusVars, caller, run, cmdVars, adminPc, devVars, snapshot, hist >>

\* The send of ConfigureTeamWifi's select can proceed: the channel exists
\* and its buffer has room.
CanQueue(chan) == ~chan.nil /\ Len(chan.buf) < accessPointRequestBufferSize

\* Run has received a request and not yet begun its apply cycle.
Draining == run.pc \in {"len", "drain", "handle"}

\* ConfigureTeamWifi: a send that never waits.
ConfigureTeamWifi(teamsArg) ==
    /\ IF CanQueue(configRequestChan)
       THEN /\ configRequestChan' = [configRequestChan EXCEPT !.buf = Append(@, teamsArg)]
            /\ caller' = "ok"
            /\ hist' = [hist EXCEPT !.drainClean = IF Draining THEN FALSE ELSE @]
       ELSE /\ caller' = "err"
            /\ UNCHANGED << configRequestChan, hist >>
    /\ UNCHANGED << call, settingsVars, statusVars, run, cmdVars, adminPc, devVars, snapshot >>

\* The caller of ConfigureTeamWifi takes the result and may call again.
CallerReturn ==
    /\ caller # "idle"
    /\ caller' = "idle"
    /\ UNCHANGED << call, settingsVars, configRequestChan, statusVars, run, cmdVars, adminPc,
                    devVars, snapshot, hist >>

\* ------------------------------------------------------------ Run
loopFrame == << settingsVars, caller, adminPc, snapshot >>

\* Run's select, first case: a request is received.
RunReceive ==
    /\ run.pc = "select"
    /\ ~configRequestChan.nil
    /\ configRequestChan.buf # <<>>
    /\ run' = [run EXCEPT !.pc = "len", !.request = Head(configRequestChan.buf)]
    /\ configRequestChan' = [configRequestChan EXCEPT !.buf = Tail(@)]
    /\ hist' = [hist EXCEPT !.pickedLast = configRequestChan.buf[Len(configRequestChan.buf)],
                            !.drainClean = TRUE, !.cycle = "none",
                            !.bestEffortErr = FALSE]
    /\ UNCHANGED << call, loopFrame, statusVars, cmdVars, devVars >>

\* Run's select, second case: no request came within the poll period.
RunPollTimer ==
    /\ run.pc = "select"
    /\ configRequestChan.buf = <<>>
    /\ run' = [run EXCEPT !.pc = "updateStatuses", !.statusCaller = "poll"]
    /\ hist' = [hist EXCEPT !.cycle = "none", !.bestEffortErr = FALSE,
                            !.poll = [active |-> TRUE, failed |-> FALSE, changed |-> FALSE]]
    /\ UNCHANGED << call, loopFrame, configRequestChan, statusVars, cmdVars, devVars >>

\* A drain that counts one request too few.
ExtraRequestsLessOne(chan) == IF Len(chan.buf) > 0 THEN Len(chan.buf) - 1 ELSE 0

\* numExtraRequests := len(ap.configRequestChan)
ExtraRequests(chan) == Len(chan.buf)

RunCountExtra ==
    /\ run.pc = "len"
    /\ run' = [run EXCEPT !.pc = "drain",
                          !.numExtraRequests = ExtraRequests(configRequestChan),
                          !.i = 0]
    /\ UNCHANGED << call, loopFrame, configRequestChan, statusVars, cmdVars, devVars, hist >>

\* A drain that empties the queue when its loop ends, dropping what was
\* queued while it ran.
RunDrainFlushed ==
    /\ run.pc = "drain"
    /\ IF run.i < run.numExtraRequests
       THEN /\ configRequestChan.buf # <<>>
            /\ run' = [run EXCEPT !.request = Head(configRequestChan.buf), !.i = @ + 1]
            /\ configRequestChan' = [configRequestChan EXCEPT !.buf = Tail(@)]
            /\ hist' = hist
       ELSE /\ run' = [run EXCEPT !.pc = "handle"]
            /\ hist' = hist
            /\ configRequestChan' = [configRequestChan EXCEPT !.buf = <<>>]
    /\ UNCHANGED << call, loopFrame, statusVars, cmdVars, devVars >>

\* One iteration of the drain loop, or its exit into
\* handleTeamWifiConfiguration(request).
RunDrain ==
    /\ run.pc = "drain"
    /\ IF run.i < run.numExtraRequests
       THEN /\ configRequestChan.buf # <<>>
            /\ run' = [run EXCEPT !.request = Head(configRequestChan.buf), !.i = @ + 1]
            /\ configRequestChan' = [configRequestChan EXCEPT !.buf = Tail(@)]
            /\ hist' = hist
       ELSE /\ run' = [run EXCEPT !.pc = "handle"]
            /\ hist' = hist
            /\ UNCHANGED configRequestChan
    /\ UNCHANGED << call, loopFrame, statusVars, cmdVars, devVars >>

\* handleTeamWifiConfiguration: returns at once when security is off, and
\* otherwise refreshes the statuses first.
HandleEntry ==
    /\ run.pc = "handle"
    /\ run' = IF ~networkSecurityEnabled
              THEN [run EXCEPT !.pc = "select", !.request = NoTeams,
                               !.numExtraRequests = 0, !.i = 0]
              ELSE [run EXCEPT !.pc = "updateStatuses", !.statusCaller = "handle",
                               !.numExtraRequests = 0, !.i = 0]
    /\ hist' = [hist EXCEPT !.pickedLast = NoTeams, !.drainClean = TRUE]
    /\ UNCHANGED << call, loopFrame, configRequestChan, statusVars, cmdVars, devVars >>

\* Where updateTeamWifiStatuses returns to.
AfterStatuses(statusCaller) ==
    CASE statusCaller = "handle" -> "handleCheck"
      [] statusCaller = "verify" -> "verify"
      [] OTHER -> "updateBTU"

\* updateTeamWifiStatuses: returns nil at once when security is off, and
\* otherwise runs "iwinfo".
UpdateStatusesEntry ==
    /\ run.pc = "updateStatuses"
    /\ IF ~networkSecurityEnabled
       THEN /\ run' = [run EXCEPT !.pc = AfterStatuses(run.statusCaller),
                                  !.statusCaller = "none", !.statusErr = FALSE]
            /\ rc' = rc
       ELSE /\ run' = [run EXCEPT !.pc = "runCommand"]
            /\ rc' = [rc EXCEPT !["loop"] = StartCommand(IwinfoCommand)]
    /\ UNCHANGED << call, loopFrame, configRequestChan, statusVars, abandoned, blocked, devVars,
                    hist >>

\* ------------------------------------------------------------ runCommand
\* ssh.Dial: the connection opens, or runCommand returns the error.
Dial(p) ==
    /\ rc[p].stage = "dial"
    /\ \/ rc' = [rc EXCEPT ![p].stage = "session", ![p].conn = "open"]
       \/ /\ ~apHealthy
          /\ rc' = [rc EXCEPT ![p].stage = "ret", ![p].err = TRUE]
    /\ UNCHANGED << call, settingsVars, configRequestChan, statusVars, caller, run, abandoned,
                    blocked, adminPc, devVars, snapshot, hist >>

\* conn.NewSession: the session opens, the two Close calls are deferred and
\* the worker goroutine is started, or runCommand returns the error with
\* nothing deferred yet.
NewSession(p) ==
    /\ rc[p].stage = "session"
    /\ \/ rc' = [rc EXCEPT ![p].stage = "wait", ![p].worker = "running",
                           ![p].session = "open"]
       \/ /\ ~apHealthy
          /\ rc' = [rc EXCEPT ![p].stage = "ret", ![p].err = TRUE]
    /\ UNCHANGED << call, settingsVars, configRequestChan, statusVars, caller, run, abandoned,
                    blocked, adminPc, devVars, snapshot, hist >>

\* A commandChan made without a buffer.
CanSendUnbuffered(commandChan) == Len(commandChan) < 0

\* A send to commandChan goes into its buffer when there is room.
CanSend(commandChan) == Len(commandChan) < commandChanSize

\* The worker: session.Output returns and the result is sent to commandChan
\* (into the buffer, or straight to runCommand waiting in its select).
WorkerFinish(p) ==
    /\ rc[p].stage = "wait"
    /\ rc[p].worker = "running"
    /\ \E o \in DeviceOutcomes(rc[p].command, apStaged, apActive, apTraffic) :
          /\ apHealthy => o.healthy
          /\ rc' = IF CanSend(rc[p].commandChan)
                   THEN [rc EXCEPT ![p].worker = "exited",
                                   ![p].commandChan = Append(@, SshOutput(o.output, o.err))]
                   ELSE [rc EXCEPT ![p].worker = "exited", ![p].stage = "ret",
                                   ![p].output = o.output, ![p].err = o.err,
                                   ![p].conn = "closed", ![p].session = "closed"]
          /\ apStaged' = o.staged
          /\ apActive' = o.active
    /\ UNCHANGED << call, settingsVars, configRequestChan, statusVars, caller, run, abandoned,
                    blocked, adminPc, apHealthy, apTraffic, snapshot, hist >>

\* runCommand's select, first case: the worker's result is received.
CommandReceive(p) ==
    /\ rc[p].stage = "wait"
    /\ rc[p].commandChan # <<>>
    /\ rc' = [rc EXCEPT ![p].stage = "ret", ![p].commandChan = Tail(@),
                        ![p].output = Head(rc[p].commandChan).output,
                        ![p].err = Head(rc[p].commandChan).err,
                        ![p].conn = "closed", ![p].session = "closed"]
    /\ UNCHANGED << call, settingsVars, configRequestChan, statusVars, caller, run, abandoned,
                    blocked, adminPc, devVars, snapshot, hist >>

\* runCommand's select, second case: the command timer fires.  A worker
\* still running is left behind with its channel.
CommandTimeout(p) ==
    /\ rc[p].stage = "wait"
    /\ ~apHealthy
    /\ rc[p].worker = "running" => abandoned < MaxAbandoned
    /\ rc' = [rc EXCEPT ![p].stage = "ret", ![p].output = EmptyOutput, ![p].err = TRUE,
                        ![p].timedOut = TRUE, ![p].worker = "none",
                        ![p].commandChan = <<>>,
                        ![p].leftWorker = (rc[p].worker = "running"),
                        ![p].conn = "closed", ![p].session = "closed"]
    /\ abandoned' = IF rc[p].worker = "running" THEN abandoned + 1 ELSE abandoned
    /\ UNCHANGED << call, settingsVars, configRequestChan, statusVars, caller, run, blocked,
                    adminPc, devVars, snapshot, hist >>

\* A worker left behind finishes: its result goes into the buffer of its
\* channel, which nobody reads, and the worker exits; without room it
\* would wait for a receiver forever.
AbandonedWorkerFinish ==
    /\ abandoned > 0
    /\ abandoned' = abandoned - 1
    /\ blocked' = IF CanSend(<<>>) THEN blocked ELSE blocked + 1
    /\ UNCHANGED << call, settingsVars, configRequestChan, statusVars, caller, run, rc, adminPc,
                    devVars, snapshot, hist >>

\* runCommand has returned in the Run goroutine from the given command.
Returned(kind) ==
    /\ run.pc = "runCommand"
    /\ rc["loop"].stage = "ret"
    /\ rc["loop"].command.kind = kind

\* ------------------------------------------------------------ updateTeamWifiStatuses
\* "iwinfo" has returned: an error of the command or of decodeWifiInfo's
\* length check is returned to the caller; otherwise the decode loop starts.
StatusesCommandDone ==
    /\ Returned("iwinfo")
    /\ rc' = [rc EXCEPT !["loop"] = IdleCommand]
    /\ IF rc["loop"].err \/ decodeWifiInfoFails(rc["loop"].output.dump)
       THEN /\ run' = [run EXCEPT !.pc = AfterStatuses(run.statusCaller),
                                  !.statusCaller = "none", !.statusErr = TRUE]
            /\ hist' = [hist EXCEPT !.poll.failed = hist.poll.active]
       ELSE /\ run' = [run EXCEPT !.pc = "decode", !.wifiInfo = rc["loop"].output.dump,
                                  !.statusIdx = 0]
            /\ hist' = [hist EXCEPT !.decodeBase = TeamWifiStatuses]
    /\ UNCHANGED << call, loopFrame, configRequestChan, statusVars, abandoned, blocked, devVars >>

\* One iteration of decodeWifiInfo's loop, or its end: the flag is set and
\* updateTeamWifiStatuses returns nil.
DecodeStep ==
    /\ run.pc = "decode"
    /\ IF run.statusIdx < NumStations
       THEN /\ TeamWifiStatuses' = decodeWifiInfoAt(run.wifiInfo, TeamWifiStatuses, run.statusIdx)
            /\ run' = [run EXCEPT !.statusIdx = @ + 1]
            /\ hist' = [hist EXCEPT !.poll.changed =
                           @ \/ (hist.poll.active /\ TeamWifiStatuses' # TeamWifiStatuses)]
            /\ UNCHANGED initialStatusesFetched
       ELSE /\ initialStatusesFetched' = TRUE
            /\ run' = [run EXCEPT !.pc = AfterStatuses(run.statusCaller),
                                  !.statusCaller = "none", !.statusErr = FALSE,
                                  !.statusIdx = 0,
                                  !.wifiInfo = IF run.statusCaller = "poll" THEN NoDump ELSE @]
            /\ hist' = [hist EXCEPT !.fetchSucceeded = TRUE, !.decodeBase = ZeroStatuses,
                                    !.poll.changed =
                                        @ \/ (hist.poll.active /\ ~initialStatusesFetched)]
            /\ UNCHANGED TeamWifiStatuses
    /\ UNCHANGED << call, loopFrame, configRequestChan, cmdVars, devVars >>

\* ------------------------------------------------------------ the apply cycle
\* configureTeams entered with the given teams.
EnterConfigureTeams(r, teamsArg, pass) ==
    [r EXCEPT !.pc = "station", !.teams = teamsArg, !.pass = pass, !.teamIndex = 0,
              !.retryCount = 1, !.statusErr = FALSE, !.wifiInfo = NoDump]

\* The Run goroutine back at its select with its locals dropped.
BackToSelect(r) ==
    [r EXCEPT !.pc = "select", !.request = NoTeams, !.teams = NoTeams, !.pass = "none",
              !.teamIndex = 0, !.retryCount = 1, !.statusErr = FALSE, !.wifiInfo = NoDump,
              !.btuIdx = 0]

\* handleTeamWifiConfiguration after the refresh: the cycle is skipped when
\* the configuration is already correct; otherwise the Linksys device is
\* cleared first and the Vivid device configured directly.
HandleCheck ==
    /\ run.pc = "handleCheck"
    /\ IF ~run.statusErr
          /\ configIsCorrectForTeams(initialStatusesFetched, TeamWifiStatuses, run.request)
       THEN /\ run' = BackToSelect(run)
            /\ hist' = [hist EXCEPT !.cycle = "skipped"]
       ELSE /\ run' = IF ~isVividType
                      THEN EnterConfigureTeams(run, NoTeams, "blank")
                      ELSE EnterConfigureTeams(run, run.request, "target")
            /\ hist' = hist
    /\ UNCHANGED << call, loopFrame, configRequestChan, statusVars, cmdVars, devVars >>

\* The command configureTeams runs for the station at teamIndex: the header
\* around whatever generateTeamAccessPointConfig returned.
StationCommand(isVivid, teamsArg, teamIndex) ==
    addConfigurationHeader(
        generateTeamAccessPointConfig(isVivid, teamsArg[teamIndex], teamIndex + 1).config)

\* configureTeams: the command for the next station, or after the sixth
\* station "uci commit wireless".
ConfigureStation ==
    /\ run.pc = "station"
    /\ run' = [run EXCEPT !.pc = "runCommand"]
    /\ rc' = [rc EXCEPT !["loop"] =
                 IF run.teamIndex < NumStations
                 THEN StartCommand(StationCommand(isVividType, run.teams, run.teamIndex))
                 ELSE StartCommand(CommitCommand)]
    /\ UNCHANGED << call, loopFrame, configRequestChan, statusVars, abandoned, blocked, devVars,
                    hist >>

\* A retry that goes back to the first station.
StationCommandDoneRestart ==
    /\ Returned("batch")
    /\ rc["loop"].err => run.retryCount < MaxRetryCount
    /\ rc' = [rc EXCEPT !["loop"] = IdleCommand]
    /\ run' = IF rc["loop"].err
              THEN [run EXCEPT !.pc = "retrySleep", !.retryCount = @ + 1, !.teamIndex = 0]
              ELSE [run EXCEPT !.pc = "station", !.teamIndex = @ + 1]
    /\ UNCHANGED << call, loopFrame, configRequestChan, statusVars, abandoned, blocked, devVars,
                    hist >>

\* The station's command has returned: on an error the retry counter goes
\* up and the goroutine sleeps before it tries the same station again.
StationCommandDone ==
    /\ Returned("batch")
    /\ rc["loop"].err => run.retryCount < MaxRetryCount
    /\ rc' = [rc EXCEPT !["loop"] = IdleCommand]
    /\ run' = IF rc["loop"].err
              THEN [run EXCEPT !.pc = "retrySleep", !.retryCount = @ + 1]
              ELSE [run EXCEPT !.pc = "station", !.teamIndex = @ + 1]
    /\ UNCHANGED << call, loopFrame, configRequestChan, statusVars, abandoned, blocked, devVars,
                    hist >>

\* The pause of accessPointConfigRetryIntervalSec is over: the loop goes on
\* with the station it was at.
RetrySleep ==
    /\ run.pc = "retrySleep"
    /\ run' = [run EXCEPT !.pc = "station"]
    /\ UNCHANGED << call, loopFrame, configRequestChan, statusVars, cmdVars, devVars, hist >>

\* "uci commit wireless" has returned, whatever its result: "wifi reload".
CommitCommandDone ==
    /\ Returned("commit")
    /\ rc' = [rc EXCEPT !["loop"] = StartCommand(ReloadCommand)]
    /\ hist' = [hist EXCEPT !.bestEffortErr = @ \/ rc["loop"].err]
    /\ UNCHANGED << call, loopFrame, configRequestChan, statusVars, run, abandoned, blocked,
                    devVars >>

\* A reload whose failure counts as a failed attempt and sends the pass
\* back to its first station.
ReloadCommandDoneCounted ==
    /\ Returned("reload")
    /\ rc' = [rc EXCEPT !["loop"] = IdleCommand]
    /\ run' = IF rc["loop"].err
              THEN [run EXCEPT !.pc = "station", !.teamIndex = 0]
              ELSE [run EXCEPT !.pc = "updateStatuses", !.statusCaller = "verify"]
    /\ hist' = [hist EXCEPT !.bestEffortErr = @ \/ rc["loop"].err]
    /\ UNCHANGED << call, loopFrame, configRequestChan, statusVars, abandoned, blocked, devVars >>

\* "wifi reload" has returned, whatever its result: the statuses are fetched.
ReloadCommandDone ==
    /\ Returned("reload")
    /\ rc' = [rc EXCEPT !["loop"] = IdleCommand]
    /\ run' = [run EXCEPT !.pc = "updateStatuses", !.statusCaller = "verify"]
    /\ hist' = [hist EXCEPT !.bestEffortErr = @ \/ rc["loop"].err]
    /\ UNCHANGED << call, loopFrame, configRequestChan, statusVars, abandoned, blocked, devVars >>

\* A configureTeams that gives way to a newer request: after a failed
\* verification it takes the next assignment from the queue.
VerifyConfigurationPreempted ==
    /\ run.pc = "verify"
    /\ IF ~run.statusErr
          /\ configIsCorrectForTeams(initialStatusesFetched, TeamWifiStatuses, run.teams)
       THEN /\ IF run.pass = "blank"
               THEN /\ run' = EnterConfigureTeams(run, run.request, "target")
                    /\ hist' = [hist EXCEPT !.bestEffortErr = FALSE]
               ELSE /\ run' = BackToSelect(run)
                    /\ hist' = [hist EXCEPT !.cycle = "configured"]
            /\ UNCHANGED configRequestChan
       ELSE /\ hist' = [hist EXCEPT !.bestEffortErr = FALSE]
            /\ IF configRequestChan.buf # <<>>
               THEN /\ run' = [EnterConfigureTeams(run, Head(configRequestChan.buf), "target")
                                  EXCEPT !.request = Head(configRequestChan.buf)]
                    /\ configRequestChan' = [configRequestChan EXCEPT !.buf = Tail(@)]
               ELSE /\ run' = [run EXCEPT !.pc = "station", !.teamIndex = 0,
                                          !.statusErr = FALSE, !.wifiInfo = NoDump]
                    /\ UNCHANGED configRequestChan
    /\ UNCHANGED << call, loopFrame, statusVars, cmdVars, devVars >>

\* configureTeams after the fetch: it returns when the configuration is
\* correct (and handleTeamWifiConfiguration goes on to the teams after the
\* clearing pass), and otherwise starts again from the first station.
VerifyConfiguration ==
    /\ run.pc = "verify"
    /\ IF ~run.statusErr
          /\ configIsCorrectForTeams(initialStatusesFetched, TeamWifiStatuses, run.teams)
       THEN IF run.pass = "blank"
            THEN /\ run' = EnterConfigureTeams(run, run.request, "target")
                 /\ hist' = [hist EXCEPT !.bestEffortErr = FALSE]
            ELSE /\ run' = BackToSelect(run)
                 /\ hist' = [hist EXCEPT !.cycle = "configured"]
       ELSE /\ run' = [run EXCEPT !.pc = "station", !.teamIndex = 0, !.statusErr = FALSE,
                                  !.wifiInfo = NoDump]
            /\ hist' = [hist EXCEPT !.bestEffortErr = FALSE]
    /\ UNCHANGED << call, loopFrame, configRequestChan, statusVars, cmdVars, devVars >>

\* ------------------------------------------------------------ updateTeamWifiBTU
\* updateTeamWifiBTU: returns at once when security is off.
UpdateBTUEntry ==
    /\ run.pc = "updateBTU"
    /\ run' = IF ~networkSecurityEnabled
              THEN BackToSelect(run)
              ELSE [run EXCEPT !.pc = "btuLoop", !.btuIdx = 0, !.statusErr = FALSE]
    /\ hist' = IF ~networkSecurityEnabled THEN [hist EXCEPT !.poll = NoPoll] ELSE hist
    /\ UNCHANGED << call, loopFrame, configRequestChan, statusVars, cmdVars, devVars >>

\* The loop over the statuses: "luci-bwc" for the next station, or the end.
UpdateBTUStation ==
    /\ run.pc = "btuLoop"
    /\ IF run.btuIdx < NumStations
       THEN /\ run' = [run EXCEPT !.pc = "runCommand"]
            /\ rc' = [rc EXCEPT !["loop"] = StartCommand(BwcCommand(run.btuIdx))]
            /\ hist' = hist
       ELSE /\ run' = BackToSelect(run)
            /\ rc' = rc
            /\ hist' = [hist EXCEPT !.poll = NoPoll]
    /\ UNCHANGED << call, loopFrame, configRequestChan, statusVars, abandoned, blocked, devVars >>

\* "luci-bwc" has returned: an error ends the poll; otherwise parseBtu's
\* value is stored, unless parseBtu panics, which ends the goroutine and
\* with it the process.
BwcCommandDone ==
    /\ Returned("bwc")
    /\ rc' = [rc EXCEPT !["loop"] = IdleCommand]
    /\ LET btu == parseBtu(rc["loop"].output.samples)
       IN IF rc["loop"].err
          THEN /\ run' = BackToSelect(run)
               /\ hist' = [hist EXCEPT !.poll = NoPoll]
               /\ UNCHANGED TeamWifiStatuses
          ELSE IF btu.panic
          THEN /\ run' = [run EXCEPT !.pc = "panicked"]
               /\ hist' = hist
               /\ UNCHANGED TeamWifiStatuses
          ELSE /\ run' = [run EXCEPT !.pc = "btuLoop", !.btuIdx = @ + 1]
               /\ hist' = [hist EXCEPT !.poll.changed =
                              @ \/ TeamWifiStatuses[run.btuIdx].MBits # btu.mBits]
               /\ TeamWifiStatuses' = [TeamWifiStatuses EXCEPT ![run.btuIdx].MBits = btu.mBits]
    /\ UNCHANGED << call, loopFrame, configRequestChan, initialStatusesFetched, abandoned, blocked,
                    devVars >>

\* ------------------------------------------------------------ other goroutines
\* ConfigureAdminSettings: returns nil at once when security is off, and
\* otherwise runs its command.
ConfigureAdminSettings ==
    /\ adminPc = "idle"
    /\ IF ~networkSecurityEnabled
       THEN UNCHANGED << adminPc, rc >>
       ELSE /\ adminPc' = "runCommand"
            /\ rc' = [rc EXCEPT !["admin"] = StartCommand(AdminCommand)]
    /\ UNCHANGED << call, settingsVars, configRequestChan, statusVars, caller, run, abandoned,
                    blocked, devVars, snapshot, hist >>

\* ConfigureAdminSettings returns runCommand's error to its caller.
AdminCommandDone ==
    /\ adminPc = "runCommand"
    /\ rc["admin"].stage = "ret"
    /\ adminPc' = "idle"
    /\ rc' = [rc EXCEPT !["admin"] = IdleCommand]
    /\ UNCHANGED << call, settingsVars, configRequestChan, statusVars, caller, run, abandoned,
                    blocked, devVars, snapshot, hist >>

\* The whole of decodeWifiInfo's loop applied to the given statuses.
decodeWifiInfoAll(wifiInfo, statuses) ==
    [k \in Stations |->
        [statuses[k] EXCEPT !.TeamId = Atoi(wifiInfo.ssids[k + 1]),
                            !.RadioLinked = (wifiInfo.linkQualities[k + 1] # "unknown")]]

\* A reader of the exported field ap.TeamWifiStatuses copies the array.
ReadStatuses ==
    /\ snapshot' = TeamWifiStatuses
    /\ hist' = [hist EXCEPT !.snapshotTorn =
                   /\ run.pc = "decode"
                   /\ TeamWifiStatuses # hist.decodeBase
                   /\ TeamWifiStatuses # decodeWifiInfoAll(run.wifiInfo, hist.decodeBase)]
    /\ UNCHANGED << call, settingsVars, configRequestChan, statusVars, caller, run, cmdVars,
                    adminPc, devVars >>

\* ------------------------------------------------------------ functions on their own
\* Arguments for generateTeamAccessPointConfig: positions around 1..6 and
\* keys around the lengths 8 and 63.
CallPositions == 0 .. 7

CallKeyLengths == {7, 8, 63, 64}

CallTeamIds == {1, 254, 9611}

CallTeams == {NilTeam} \cup {Team(id, n) : id \in CallTeamIds, n \in CallKeyLengths}

GenerateCalls ==
    {[fn |-> "generateTeamAccessPointConfig", isVivid |-> v, team |-> t, position |-> p,
      returned |-> FALSE, config |-> <<>>, err |-> FALSE] :
        v \in BOOLEAN, t \in CallTeams, p \in CallPositions}

\* Network names a dump may hold: numerals, a numeral with leading zeros, a
\* placeholder, a name with a digit in it, and a numeral of twenty digits.
LongNumeral == [j \in 1 .. 20 |-> "9"]

CallNames ==
    {Itoa(1), Itoa(9611), <<"0", "0", "7">>, NoTeamName(3), <<"1", "_", "0">>, LongNumeral}

\* A dump of n names, a and b in turn, and m link qualities, "unknown" at
\* the odd or at the even places.
CallDump(n, m, a, b, oddLinked) ==
    [ssids |-> [k \in 1 .. n |-> IF k % 2 = 1 THEN a ELSE b],
     linkQualities |-> [k \in 1 .. m |-> IF (k % 2 = 1) = oddLinked THEN "70" ELSE "unknown"]]

CallDumpSizes == 5 .. 7

\* The statuses a decode starts from: none of its fields is a zero value.
UsedStatuses == [k \in Stations |-> TeamWifiStatus(5, k % 2 = 0, 3)]

DecodeCalls ==
    {[fn |-> "decodeWifiInfo", wifiInfo |-> CallDump(n, m, a, b, o), before |-> UsedStatuses,
      statuses |-> UsedStatuses, returned |-> FALSE, err |-> FALSE] :
        n \in CallDumpSizes, m \in CallDumpSizes, a \in CallNames, b \in CallNames,
        o \in BOOLEAN}

\* Byte counters of the k-th sample of an interface: received and sent.
CallCounters ==
    {[k \in 1 .. 8 |-> [rx |-> 100 * k, tx |-> 25 * k]],
     [k \in 1 .. 8 |-> [rx |-> k * k, tx |-> 7]],
     [k \in 1 .. 8 |-> [rx |-> 100, tx |-> 25]]}

\* The text of n samples with the given counters, every sample cut to the
\* given number of fields, the last sample and the sixth from the end to
\* numbers of their own.
CallResponse(n, counters, fields, lastFields, sixthFields) ==
    [k \in 1 .. n |->
        SubSeq(Sample(k, counters[k].rx, k, counters[k].tx, k), 1,
               IF k = n THEN lastFields ELSE IF k = n - 5 THEN sixthFields ELSE fields)]

CallSampleCounts == 5 .. 8

CallFieldCounts == {2, 5}

ParseBtuCalls ==
    {[fn |-> "parseBtu", counters |-> c, response |-> CallResponse(n, c, f, l, s),
      returned |-> FALSE, panic |-> FALSE, mBits |-> 0] :
        n \in CallSampleCounts, c \in CallCounters, f \in CallFieldCounts,
        l \in CallFieldCounts, s \in CallFieldCounts}

\* A call of generateTeamAccessPointConfig returns.
CallGenerate ==
    /\ call.fn = "generateTeamAccessPointConfig"
    /\ ~call.returned
    /\ LET r == generateTeamAccessPointConfig(call.isVivid, call.team, call.position)
       IN call' = [call EXCEPT !.returned = TRUE, !.config = r.config, !.err = r.err]
    /\ UNCHANGED << settingsVars, configRequestChan, statusVars, caller, run, cmdVars,
                    adminPc, devVars, snapshot, hist >>

\* A call of decodeWifiInfo returns.
CallDecode ==
    /\ call.fn = "decodeWifiInfo"
    /\ ~call.returned
    /\ call' = IF decodeWifiInfoFails(call.wifiInfo)
               THEN [call EXCEPT !.returned = TRUE, !.err = TRUE]
               ELSE [call EXCEPT !.returned = TRUE,
                                 !.statuses = decodeWifiInfoAll(call.wifiInfo, call.statuses)]
    /\ UNCHANGED << settingsVars, configRequestChan, statusVars, caller, run, cmdVars,
                    adminPc, devVars, snapshot, hist >>

\* A call of parseBtu returns or panics.
CallParseBtu ==
    /\ call.fn = "parseBtu"
    /\ ~call.returned
    /\ LET r == parseBtu(call.response)
       IN call' = [call EXCEPT !.returned = TRUE, !.panic = r.panic, !.mBits = r.mBits]
    /\ UNCHANGED << settingsVars, configRequestChan, statusVars, caller, run, cmdVars,
                    adminPc, devVars, snapshot, hist >>

\* ------------------------------------------------------------ specifications
\* The Run goroutine's own steps outside runCommand.
RunStep ==
    \/ RunReceive
    \/ RunPollTimer
    \/ RunCountExtra
    \/ RunDrain
    \/ HandleEntry
    \/ UpdateStatusesEntry
    \/ StatusesCommandDone
    \/ DecodeStep
    \/ HandleCheck
    \/ ConfigureStation
    \/ StationCommandDone
    \/ CommitCommandDone
    \/ ReloadCommandDone
    \/ VerifyConfiguration
    \/ UpdateBTUEntry
    \/ UpdateBTUStation
    \/ BwcCommandDone

\* The steps inside runCommand of the goroutine p.
RunCommandStep(p) ==
    \/ Dial(p)
    \/ NewSession(p)
    \/ WorkerFinish(p)
    \/ CommandReceive(p)
    \/ CommandTimeout(p)

\* The device kind is chosen by the first SetSettings; later calls switch
\* network security on and off.
ChangeSettings(securities) ==
    \E vivid \in BOOLEAN, security \in securities :
        /\ configRequestChan.nil \/ vivid = isVividType
        /\ SetSettings(vivid, security)

\* Callers keep at most MaxPending requests pending.
SubmitPending ==
    \E t \in Assignments :
        /\ Len(configRequestChan.buf) < MaxPending
        /\ ConfigureTeamWifi(t)

\* runCommand of the goroutine p when the command timer never fires first:
\* to its caller a timeout is one more error.
RunCommandInTime(p) ==
    \/ Dial(p)
    \/ NewSession(p)
    \/ WorkerFinish(p)
    \/ CommandReceive(p)

\* The controller with its callers and the device.
Next ==
    \/ ChangeSettings(BOOLEAN)
    \/ SubmitPending
    \/ RunStep
    \/ RetrySleep
    \/ RunCommandInTime("loop")

Spec == Init /\ [][Next]_vars

\* The queue on its own: network security stays off, so that every cycle
\* ends at once, and one caller after another fills the queue to its
\* capacity and beyond.
QueueAssignments == {NoTeams, OneTeam}

SubmitAny ==
    \E t \in QueueAssignments :
        /\ caller = "idle"
        /\ ConfigureTeamWifi(t)

InitQueue == InitWith({BlankNetworks}, FALSE, FALSE)

NextQueue ==
    \/ SetSettings(FALSE, FALSE)
    \/ SubmitAny
    \/ CallerReturn
    \/ RunReceive
    \/ RunPollTimer
    \/ RunCountExtra
    \/ RunDrain
    \/ HandleEntry
    \/ UpdateStatusesEntry
    \/ UpdateBTUEntry

SpecQueue == InitQueue /\ [][NextQueue]_vars

\* The queue beside a Run goroutine that is scheduled: network security
\* stays off, callers keep at most MaxQueued requests pending, and Run,
\* being a goroutine that is never blocked for good, takes its next step.
SubmitQueued ==
    \E t \in Assignments :
        /\ Len(configRequestChan.buf) < MaxQueued
        /\ ConfigureTeamWifi(t)

RunQueueStep ==
    \/ RunReceive
    \/ RunPollTimer
    \/ RunCountExtra
    \/ RunDrain
    \/ HandleEntry
    \/ UpdateStatusesEntry
    \/ UpdateBTUEntry

NextDrain ==
    \/ SetSettings(FALSE, FALSE)
    \/ SubmitQueued
    \/ RunQueueStep

SpecDrain == InitQueue /\ [][NextDrain]_vars /\ WF_vars(RunQueueStep)

\* Polling on its own: no request is ever submitted, the first station
\* carries traffic, a reader runs beside the Run goroutine, and the command
\* timer may fire in runCommand.
InitPoll == InitWith({BlankNetworks}, FALSE, TRUE)

NextPoll ==
    \/ \E security \in BOOLEAN : SetSettings(FALSE, security)
    \/ RunPollTimer
    \/ UpdateStatusesEntry
    \/ StatusesCommandDone
    \/ DecodeStep
    \/ UpdateBTUEntry
    \/ UpdateBTUStation
    \/ BwcCommandDone
    \/ RunCommandStep("loop")
    \/ AbandonedWorkerFinish
    \/ ReadStatuses

SpecPoll == InitPoll /\ [][NextPoll]_vars

\* Polling beside ConfigureAdminSettings: two goroutines are in runCommand
\* at once, and the command timer may fire in either.
NextPollAdmin ==
    \/ \E security \in BOOLEAN : SetSettings(FALSE, security)
    \/ RunPollTimer
    \/ UpdateStatusesEntry
    \/ StatusesCommandDone
    \/ DecodeStep
    \/ UpdateBTUEntry
    \/ UpdateBTUStation
    \/ BwcCommandDone
    \/ \E p \in Procs : RunCommandStep(p)
    \/ AbandonedWorkerFinish
    \/ ConfigureAdminSettings
    \/ AdminCommandDone

SpecPollAdmin == InitPoll /\ [][NextPollAdmin]_vars

\* A device that accepts every command and reports the truth, with network
\* security on from the first SetSettings.  No command fails, so configureTeams
\* never sleeps before a retry.
InitHealthy == InitWith(InitialNetworks, TRUE, FALSE)

NextHealthy ==
    \/ ChangeSettings({TRUE})
    \/ SubmitPending
    \/ RunStep
    \/ RunCommandInTime("loop")

SpecHealthy == InitHealthy /\ [][NextHealthy]_vars

\* The same device, with another goroutine calling ConfigureAdminSettings
\* beside the Run goroutine.
NextHealthyAdmin ==
    \/ ChangeSettings({TRUE})
    \/ SubmitPending
    \/ RunStep
    \/ ConfigureAdminSettings
    \/ AdminCommandDone
    \/ \E p \in Procs : RunCommandInTime(p)

SpecHealthyAdmin == InitHealthy /\ [][NextHealthyAdmin]_vars

\* The same device, with settings that may change at any time.
NextHealthyAnySettings ==
    \/ ChangeSettings(BOOLEAN)
    \/ SubmitPending
    \/ RunStep
    \/ RunCommandInTime("loop")

SpecHealthyAnySettings == InitHealthy /\ [][NextHealthyAnySettings]_vars

\* The three functions that touch no field of the controller but
\* isVividType, each called once on arguments of its own.
InitCalls ==
    /\ isVividType = FALSE
    /\ networkSecurityEnabled = FALSE
    /\ configRequestChan = [nil |-> TRUE, buf |-> <<>>]
    /\ TeamWifiStatuses = ZeroStatuses
    /\ initialStatusesFetched = FALSE
    /\ caller = "idle"
    /\ run = InitRun
    /\ rc = [p \in Procs |-> IdleCommand]
    /\ abandoned = 0
    /\ blocked = 0
    /\ adminPc = "idle"
    /\ apActive = BlankNetworks
    /\ apStaged = apActive
    /\ apHealthy = TRUE
    /\ apTraffic = FALSE
    /\ snapshot = ZeroStatuses
    /\ call \in GenerateCalls \cup DecodeCalls \cup ParseBtuCalls
    /\ hist = InitHist

NextCalls ==
    \/ CallGenerate
    \/ CallDecode
    \/ CallParseBtu

SpecCalls == InitCalls /\ [][NextCalls]_vars

\* ------------------------------------------------------------ properties
\* C1: a call of ConfigureTeamWifi returns at once: with fewer than 10
\* requests pending it returns nil and the request is appended, and with 10
\* pending it returns the error and the queue is unchanged.
C1_SubmitNeverBlocks ==
    [][(caller = "idle" /\ caller' # "idle") =>
          IF Len(configRequestChan.buf) < accessPointRequestBufferSize
          THEN /\ caller' = "ok"
               /\ \E t \in Assignments :
                     configRequestChan'.buf = Append(configRequestChan.buf, t)
          ELSE /\ caller' = "err"
               /\ configRequestChan'.buf = configRequestChan.buf]_vars

\* C2: when Run receives a request with A1..Ak queued and no request is
\* queued after that, handleTeamWifiConfiguration is entered once, after
\* the drain loop has run to its end, with Ak, and the queue is empty.
C2_LatestRequestOnly ==
    /\ [](run.pc = "handle" /\ hist.drainClean =>
             /\ run.request = hist.pickedLast
             /\ configRequestChan.buf = <<>>)
    /\ [][(run'.pc = "handle" /\ run.pc # "handle") =>
             /\ run.pc = "drain"
             /\ run.i = run.numExtraRequests
             /\ run'.request = run.request]_vars

\* Ten requests were queued, nine were discarded and the tenth is handled.
C2_Witness ==
    /\ run.pc = "handle"
    /\ hist.drainClean
    /\ run.numExtraRequests = accessPointRequestBufferSize - 1
    /\ run.i = run.numExtraRequests
    /\ run.request = OneTeam
    /\ configRequestChan.buf = <<>>

\* C3: while network security is off, no goroutine enters runCommand and
\* the statuses are not written.
C3_NoOpWhenSecurityOff ==
    [][~networkSecurityEnabled =>
          /\ \A p \in Procs : ~(rc[p].stage = "idle" /\ rc'[p].stage = "dial")
          /\ TeamWifiStatuses' = TeamWifiStatuses]_vars

\* C4: a reader's copy of the statuses is never taken from an array that
\* decodeWifiInfo has updated for some stations and not yet for the others.
C4_NoTornRead == ~hist.snapshotTorn

\* C5: before the first successful status fetch configIsCorrectForTeams is
\* false for every assignment, no apply cycle has been skipped or has ended
\* as configured, and no pass of configureTeams ends as successful.
C5_NotCorrectBeforeFetch ==
    /\ [](~hist.fetchSucceeded =>
             /\ \A a \in Assignments :
                   ~configIsCorrectForTeams(initialStatusesFetched, TeamWifiStatuses, a)
             /\ hist.cycle = "none")
    /\ [][(run.pc = "verify" /\ run'.pass # run.pass) => hist.fetchSucceeded]_vars

\* No fetch has succeeded, the statuses are all zero, and the cycle for the
\* assignment without teams was not skipped: configureTeams is running.
C5_Witness ==
    /\ ~hist.fetchSucceeded
    /\ TeamWifiStatuses = ZeroStatuses
    /\ run.request = NoTeams
    /\ run.pc = "station"

\* C6: when the refresh at the start of an apply cycle succeeds and the
\* dump's name at every position decodes to the requested team's id, the
\* cycle ends there: Run goes back to its select and no command is begun.
C6_SkipWhenAlreadyCorrect ==
    [][(/\ run.pc = "handleCheck"
        /\ ~run.statusErr
        /\ run.wifiInfo # NoDump
        /\ \A k \in Stations :
              DecodedTeamId(run.wifiInfo, k) = ExpectedTeamId(run.request, k)
        /\ run' # run)
       => (run'.pc = "select" /\ rc' = rc /\ hist'.cycle = "skipped")]_vars

\* A cycle for team 1 at the first station was skipped although that
\* station's radio is not linked.
C6_Witness ==
    /\ hist.cycle = "skipped"
    /\ run.pc = "select"
    /\ TeamWifiStatuses[0].TeamId = 1
    /\ ~TeamWifiStatuses[0].RadioLinked

\* C7: no remote command is executed for a station whose configuration
\* could not be generated.
C7_FailedStationNotRun ==
    (rc["loop"].command.kind = "batch" /\ rc["loop"].worker = "exited") =>
        ~generateTeamAccessPointConfig(isVividType, run.teams[run.teamIndex],
                                       run.teamIndex + 1).err

\* C8: on a healthy device the pass for an assignment with one invalid key
\* is followed by the end of the cycle, not by another pass.
C8_BadKeyCycleEnds ==
    [][(/\ run.pc = "verify"
        /\ run.pass = "target"
        /\ run.request = BadKeyTeams
        /\ run' # run)
       => run'.pc = "select"]_vars

\* C9: whatever the device answers, the Run goroutine is never ended.
C9_RunNeverEnds == run.pc # "panicked"

\* C10: a runCommand whose timer fired returns the error with no output; a
\* worker finishing after that changes neither the result nor the caller,
\* and no worker is ever stuck sending its result.
C10_TimerWinsRace ==
    /\ [](/\ \A p \in Procs :
                rc[p].timedOut =>
                   rc[p].stage = "ret" /\ rc[p].err /\ rc[p].output = EmptyOutput
          /\ blocked = 0)
    /\ [][abandoned' < abandoned => (rc' = rc /\ run' = run)]_vars

\* runCommand timed out leaving its worker behind, and that worker has
\* since finished and gone.
C10_Witness ==
    /\ abandoned = 0
    /\ rc["admin"].stage = "idle"
    /\ rc["loop"].stage = "ret"
    /\ rc["loop"].timedOut
    /\ rc["loop"].leftWorker
    /\ blocked = 0

\* C11: generateTeamAccessPointConfig returns an error and no text exactly
\* when the position is outside 1..6 or a team's key is shorter than 8 or
\* longer than 63; otherwise every directive addresses the position, the
\* network name is the team's id in decimal, and without a team both the
\* name and the keys are no-team-<position>.
C11_GenerateContract ==
    (call.fn = "generateTeamAccessPointConfig" /\ call.returned) =>
        LET rejected == \/ call.position \notin 1 .. 6
                        \/ ~call.team.nil /\ Len(call.team.WpaKey) \notin 8 .. 63
            placeholder == <<"n", "o", "-", "t", "e", "a", "m", "-", Digit(call.position)>>
            at(option) == {j \in 1 .. Len(call.config) : call.config[j].option = option}
        IN /\ call.err <=> rejected
           /\ call.err => call.config = <<>>
           /\ ~call.err =>
                 /\ \A j \in 1 .. Len(call.config) : call.config[j].iface = call.position
                 /\ Cardinality(at("ssid")) = 1
                 /\ Cardinality(at("key")) = 1
                 /\ \A j \in at("ssid") :
                       IF call.team.nil
                       THEN call.config[j].value = placeholder
                       ELSE /\ AllDigits(call.config[j].value)
                            /\ DigitsValue(call.config[j].value, 0) = call.team.Id
                 /\ \A j \in at("key") \cup at("sae_password") :
                       call.config[j].value =
                           IF call.team.nil THEN placeholder ELSE call.team.WpaKey

\* A team with a key of 63 characters got its directives for station 6.
C11_Witness ==
    /\ call.fn = "generateTeamAccessPointConfig"
    /\ call.returned
    /\ ~call.err
    /\ call.position = 6
    /\ ~call.team.nil
    /\ Len(call.team.WpaKey) = 63
    /\ call.team.Id = 9611

\* C12: decodeWifiInfo fails and leaves the statuses as they were when the
\* dump has fewer than 6 names or fewer than 6 link qualities; otherwise it
\* succeeds and station i gets, as TeamId, the number its name denotes (0
\* for a name that is not a numeral) and, as RadioLinked, whether its link
\* quality is not "unknown", its MBits untouched.
C12_DecodeContract ==
    (call.fn = "decodeWifiInfo" /\ call.returned) =>
        IF Len(call.wifiInfo.ssids) < 6 \/ Len(call.wifiInfo.linkQualities) < 6
        THEN call.err /\ call.statuses = call.before
        ELSE /\ ~call.err
             /\ \A i \in 0 .. 5 :
                   LET name == call.wifiInfo.ssids[i + 1]
                   IN /\ IF AllDigits(name)
                         THEN ItoaNat(call.statuses[i].TeamId) = StripZeros(name)
                         ELSE call.statuses[i].TeamId = 0
                      /\ call.statuses[i].RadioLinked
                            = (call.wifiInfo.linkQualities[i + 1] # "unknown")
                      /\ call.statuses[i].MBits = call.before[i].MBits

\* C13: what parseBtu returns is 0 for fewer than 7 samples, and for 7 or
\* more the received plus sent bytes of the last sample less those of the
\* sample 6 positions before it.
C13_SixEarlier ==
    (call.fn = "parseBtu" /\ call.returned /\ ~call.panic) =>
        LET n == Len(call.response)
            c == call.counters
        IN call.mBits = IF n < 7
                      THEN 0
                      ELSE (c[n].rx + c[n].tx) - (c[n - 6].rx + c[n - 6].tx)

\* C13, amended: parseBtu returns 0 for fewer than 7 samples; for 7 or
\* more it panics when the last sample or the sample 5 positions before it
\* has fewer than 4 fields, and otherwise returns the received plus sent
\* bytes of the last sample less those of the sample 5 positions before it.
C13_FiveEarlier ==
    (call.fn = "parseBtu" /\ call.returned) =>
        LET n == Len(call.response)
            c == call.counters
        IN IF n < 7
           THEN ~call.panic /\ call.mBits = 0
           ELSE IF Len(call.response[n]) < 4 \/ Len(call.response[n - 5]) < 4
           THEN call.panic
           ELSE /\ ~call.panic
                /\ call.mBits = (c[n].rx + c[n].tx) - (c[n - 5].rx + c[n - 5].tx)

\* Eight samples whose received bytes grow by more each second: 55 bytes
\* over the last five seconds, 60 over the last six.
C13_Witness ==
    /\ call.fn = "parseBtu"
    /\ call.returned
    /\ ~call.panic
    /\ Len(call.response) = 8
    /\ call.counters[8].rx = 64
    /\ call.mBits = 55

\* C14: configureTeams returns only when the status fetch just before has
\* succeeded and its dump names the expected team at every station; after
\* any other fetch the pass starts again at the first station with the same
\* teams, however many passes there have been.
C14_ReturnsOnlyVerified ==
    [][(run.pc = "verify" /\ run' # run) =>
          LET verified ==
                  /\ ~run.statusErr
                  /\ run.wifiInfo # NoDump
                  /\ \A k \in Stations :
                        DecodedTeamId(run.wifiInfo, k) = ExpectedTeamId(run.teams, k)
              again ==
                  /\ run'.pc = "station"
                  /\ run'.teamIndex = 0
                  /\ run'.teams = run.teams
                  /\ run'.pass = run.pass
          IN IF verified THEN ~again ELSE again]_vars

\* C15: within a pass the station index only moves from k to k+1, when the
\* command for station k+1 has succeeded; when that command fails the retry
\* counter goes up by one, the goroutine sleeps, and the next command is
\* the one for the same station; the commit follows the sixth success.
C15_SameStationRetried ==
    [][/\ (/\ run.pc = "runCommand"
           /\ rc["loop"].stage = "ret"
           /\ rc["loop"].command.kind = "batch"
           /\ run' # run)
          => IF rc["loop"].err
             THEN /\ run'.pc = "retrySleep"
                  /\ run'.retryCount = run.retryCount + 1
                  /\ run'.teamIndex = run.teamIndex
             ELSE /\ run'.pc = "station"
                  /\ run'.retryCount = run.retryCount
                  /\ run'.teamIndex = run.teamIndex + 1
       /\ (run.pc = "retrySleep" /\ run' # run)
          => (run'.pc = "station" /\ run'.teamIndex = run.teamIndex)
       /\ (rc["loop"].stage = "idle" /\ rc'["loop"].command.kind = "batch")
          => /\ run.pc = "station"
             /\ run.teamIndex \in 0 .. 5
             /\ \A j \in 1 .. Len(rc'["loop"].command.directives) :
                   rc'["loop"].command.directives[j].iface = run.teamIndex + 1
       /\ (rc["loop"].stage = "idle" /\ rc'["loop"].command.kind = "commit")
          => run.teamIndex = 6
       /\ run'.teamIndex # run.teamIndex
          => \/ run.pc = "runCommand" /\ rc["loop"].command.kind = "batch"
             \/ run.pc \in {"handleCheck", "verify"} /\ run'.teamIndex = 0]_vars

\* The command for the second station has failed after the first station's
\* succeeded: the goroutine sleeps, still at the second station.
C15_Witness ==
    /\ run.pc = "retrySleep"
    /\ run.teamIndex = 1
    /\ run.retryCount = 2
    /\ run.pass = "target"
    /\ run.teams = OneTeam

\* C16: on the Linksys device the pass for the requested teams begins only
\* after a pass with no teams has pushed all six stations and a fetched dump
\* has shown team id 0 at every station, and until then every network name
\* sent is a placeholder; on the Vivid device the pass for the requested
\* teams is the first pass of the cycle.
C16_BlankBeforeTarget ==
    [][/\ (run'.pass = "target" /\ run.pass # "target")
          => IF isVividType
             THEN run.pc = "handleCheck"
             ELSE /\ run.pc = "verify"
                  /\ run.pass = "blank"
                  /\ run.teams = NoTeams
                  /\ run.teamIndex = NumStations
                  /\ ~run.statusErr
                  /\ run.wifiInfo # NoDump
                  /\ \A k \in Stations : DecodedTeamId(run.wifiInfo, k) = 0
       /\ (run'.pass = "blank" /\ run.pass # "blank")
          => (~isVividType /\ run.pc = "handleCheck")
       /\ (rc["loop"].stage = "idle" /\ rc'["loop"].command.kind = "batch"
              /\ run.pass # "target")
          => \A j \in 1 .. Len(rc'["loop"].command.directives) :
                LET d == rc'["loop"].command.directives[j]
                IN d.option = "ssid"
                      => d.value = <<"n", "o", "-", "t", "e", "a", "m", "-", Digit(d.iface)>>]_vars

C18_OnePassOnHealthyDevice ==
    [][(/\ run.pc = "verify"
        /\ \A k \in Stations :
              run.teams[k].nil \/ Len(run.teams[k].WpaKey) \in 8 .. 63
        /\ run' # run)
       => IF run.pass = "target"
          THEN run'.pc = "select" /\ hist'.cycle = "configured"
          ELSE run'.pass = "target"]_vars

\* C19: a poll in which the status command, the decoding of its dump or a
\* station's bandwidth command has failed ends with the statuses and the
\* fetched flag that the controller held when the poll began.
C19_FailedPollKeepsStatuses ==
    [][(/\ hist.poll.active
        /\ ~hist'.poll.active
        /\ \/ hist.poll.failed
           \/ rc["loop"].command.kind = "bwc" /\ rc["loop"].stage = "ret" /\ rc["loop"].err)
       => /\ ~hist.poll.changed
          /\ TeamWifiStatuses' = TeamWifiStatuses
          /\ initialStatusesFetched' = initialStatusesFetched]_vars

\* Run is inside handleTeamWifiConfiguration, past the check of network
\* security at its entry.
ApplyCycleRunning ==
    \/ run.statusCaller = "handle"
    \/ run.pc = "handleCheck"
    \/ run.pass # "none"

\* C20: no step taken while an apply cycle runs removes a request from the
\* queue, replaces the request the cycle is applying, starts a poll or
\* leaves the cycle other than by its return to Run's select; every pass of
\* the cycle configures the blank assignment or the request it received.
C20_CycleNotInterrupted ==
    [][ApplyCycleRunning
       => /\ Len(configRequestChan'.buf) >= Len(configRequestChan.buf)
          /\ SubSeq(configRequestChan'.buf, 1, Len(configRequestChan.buf))
                = configRequestChan.buf
          /\ ~hist'.poll.active
          /\ IF ApplyCycleRunning'
             THEN /\ run'.request = run.request
                  /\ run'.teams \in {NoTeams, run.request}
             ELSE run'.pc = "select"]_vars

\* Verification of the pass for the received request has just failed with
\* network security on, so the pass is about to be repeated, while a
\* different assignment waits in the queue.
C20_Witness ==
    /\ run.pc = "verify"
    /\ run.pass = "target"
    /\ networkSecurityEnabled
    /\ \/ run.statusErr
       \/ ~configIsCorrectForTeams(initialStatusesFetched, TeamWifiStatuses, run.teams)
    /\ configRequestChan.buf # <<>>
    /\ Head(configRequestChan.buf) # run.request
    /\ run.request # NoTeams

\* C21: when runCommand has returned, on any of its paths, neither the
\* connection nor the session of the invocation is open, and an invocation
\* that is about to dial holds no connection and no session of an earlier
\* one.
C21_ReturnsTornDown ==
    \A p \in Procs :
        /\ rc[p].stage = "ret" => rc[p].conn # "open" /\ rc[p].session # "open"
        /\ rc[p].stage = "dial" => rc[p].conn = "none" /\ rc[p].session = "none"

\* The command changes the device's configuration or puts it into effect:
\* the "uci batch" of a station, "uci commit", the wifi reload, and the
\* admin command.
ConfigurationWriting(command) == command.kind \in {"batch", "commit", "reload", "admin"}

\* The goroutine p is in runCommand and its worker is in session.Output:
\* the device has the command and has not answered.
InFlight(p) == rc[p].stage = "wait" /\ rc[p].worker = "running"

\* C22: of the goroutines that call runCommand, at most one has a
\* configuration-writing command in flight to the device.
C22_OneWriterInFlight ==
    Cardinality({p \in Procs : InFlight(p) /\ ConfigurationWriting(rc[p].command)}) <= 1

\* C23: the queue changes only by a request appended at its end or by Run
\* receiving its first request, which then is the request Run holds (the
\* one held before, queued earlier, is dropped); when the drain ends, the
\* request held is the one handled and what is queued stays queued; and a
\* request waiting while Run is elsewhere leads to Run receiving again.
C23_DrainLosesNothing ==
    /\ [][LET buf == configRequestChan.buf
              buf2 == configRequestChan'.buf
          IN /\ \/ buf2 = buf
                \/ \E t \in Assignments : buf2 = Append(buf, t) /\ caller' = "ok"
                \/ /\ buf # <<>>
                   /\ buf2 = Tail(buf)
                   /\ run'.request = Head(buf)
                   /\ run.pc \in {"select", "drain"}
                   /\ run'.pc \in {"len", "drain"}
             /\ (run.pc = "drain" /\ run'.pc = "handle")
                   => run'.request = run.request /\ buf2 = buf]_vars
    /\ (configRequestChan.buf # <<>> /\ run.pc \notin {"len", "drain"}) ~> (run.pc = "len")

\* The apply cycle starts for the last request drained, after two earlier
\* ones were dropped, while a request queued during the drain waits.
C23_Witness ==
    /\ run.pc = "handle"
    /\ run.numExtraRequests = 2
    /\ run.i = 2
    /\ ~hist.drainClean
    /\ configRequestChan.buf # <<>>
    /\ Head(configRequestChan.buf) # run.request

====
